---- MODULE Spec2Model ----
(***************************************************************************)
(* Descriptor extraction of the Ln-TM exchange predictor                   *)
(* (geometry_features.py) and the Streamlit page that calls it (app.py).   *)
(*                                                                         *)
(* Numbers.  Coordinates are whole numbers in the input file and are       *)
(* carried in half units (float(x) is 2*x), so that the midpoint of two    *)
(* atoms is exact.  A float the code computes is carried symbolically and  *)
(* compared exactly:                                                       *)
(*   fn = "sqrt"    sqrt(p)                      (a distance)              *)
(*   fn = "sum"     sqrt(p) + sqrt(q)            (a sum of two distances)  *)
(*   fn = "arccos"  degrees(arccos(p / sqrt(q))) (an angle)                *)
(*   fn = "arctan2" degrees(arctan2(p / sqrt(r), q))  (a dihedral)         *)
(*   fn = "nan"     IEEE not-a-number: every comparison with it is false   *)
(* Rounding is not modelled: two floats are equal when the reals are.      *)
(* Spins are carried doubled (2S), so 1.5 is 3.                            *)
(***************************************************************************)
EXTENDS Integers, Sequences, FiniteSets, TLC

VARIABLES
    xyz_file,   \* extract_features: the lines of the file at the path given
    ln_index,   \* extract_features: argument, None or an integer
    tm_index,   \* extract_features: argument, None or an integer
    pc,         \* "call" before the call, "done" after it returned or raised
    result,     \* what the call returned or raised
    temp_xyz,   \* app.py: the content of temp.xyz, shared by all sessions
    session     \* app.py: each browser session's script run

vars == <<xyz_file, ln_index, tm_index, pc, result, temp_xyz, session>>

---------------------------------------------------------------------------
(* Bounds of the model *)

\* longest file of the selection family
MaxAtoms == 3
\* most oxygen and carbon lines after the two metals in the geometry family
MaxLigands == 4
\* largest x coordinate of the grid the atoms are placed on
MaxCoord == 1
\* concurrent browser sessions
NumSessions == 2

---------------------------------------------------------------------------
(* Python values *)

\* An optional argument: <<>> is None, <<k>> is the integer k.
None == <<>>
Some(k) == <<k>>
\* Python truthiness of an optional integer: None and 0 are falsy.
Truthy(i) == i # None /\ i[1] # 0

NaN == [nan |-> TRUE, fn |-> "nan", p |-> 0, q |-> 0, r |-> 0]
Float(f, a, b, c) == [nan |-> FALSE, fn |-> f, p |-> a, q |-> b, r |-> c]

Sq(x) == x * x
\* t |-> sign(t) * t^2 is increasing, so x*sqrt(m) < y*sqrt(n) iff SSq(x)*m < SSq(y)*n
SSq(x) == IF x < 0 THEN -(x * x) ELSE x * x

\* sqrt(a) + sqrt(b) < sqrt(c) + sqrt(d), decided exactly
SumLt(a, b, c, d) ==
    LET P == 4 * a * b
        Q == 4 * c * d
        D == (c + d) - (a + b)
        E == P - Q - Sq(D)
        F == Q - P - Sq(D)
    IN  IF D > 0 THEN E < 0 \/ Sq(E) < 4 * Sq(D) * Q
        ELSE F > 0 /\ 4 * Sq(D) * P < Sq(F)

\* x < y on floats of one kind; False when either is nan
float_lt(x, y) ==
    /\ ~x.nan
    /\ ~y.nan
    /\ CASE x.fn = "sqrt" -> x.p < y.p
         [] x.fn = "sum" -> SumLt(x.p, x.q, y.p, y.q)
         [] x.fn = "arccos" -> SSq(y.p) * x.q < SSq(x.p) * y.q
         [] OTHER -> FALSE

\* x == y on floats of one kind; False when either is nan
float_eq(x, y) == ~x.nan /\ ~y.nan /\ ~float_lt(x, y) /\ ~float_lt(y, x)

float_le(x, y) == float_lt(x, y) \/ float_eq(x, y)

\* sorted() of a list of floats: a stable sort that only asks x < y
RECURSIVE insert_float(_, _)
insert_float(x, s) ==
    IF s = <<>> THEN <<x>>
    ELSE IF float_lt(x, Head(s)) THEN <<x>> \o s
    ELSE <<Head(s)>> \o insert_float(x, Tail(s))

RECURSIVE sorted_floats(_)
sorted_floats(s) ==
    IF s = <<>> THEN <<>>
    ELSE insert_float(s[Len(s)], sorted_floats(SubSeq(s, 1, Len(s) - 1)))

---------------------------------------------------------------------------
(* geometry utilities *)

Sub(a, b) == <<a[1] - b[1], a[2] - b[2], a[3] - b[3]>>
Dot(a, b) == a[1] * b[1] + a[2] * b[2] + a[3] * b[3]
Cross(a, b) ==
    <<a[2] * b[3] - a[3] * b[2], a[3] * b[1] - a[1] * b[3], a[1] * b[2] - a[2] * b[1]>>
Scale(k, a) == <<k * a[1], k * a[2], k * a[3]>>

dist(a, b) == Float("sqrt", Dot(Sub(a, b), Sub(a, b)), 0, 0)

\* dist(..) + dist(..)
float_add(x, y) == Float("sum", x.p, y.p, 0)

\* 0.0 / 0.0 is nan (numpy warns and goes on); arccos and degrees keep it
angle(a, b, c) ==
    LET ba == Sub(a, b)
        bc == Sub(c, b)
        n2 == Dot(ba, ba) * Dot(bc, bc)
    IN  IF n2 = 0 THEN NaN ELSE Float("arccos", Dot(ba, bc), n2, 0)

midpoint(a, b) == <<(a[1] + b[1]) \div 2, (a[2] + b[2]) \div 2, (a[3] + b[3]) \div 2>>

\* b1 /= norm(b1) is nan in every component when p1 = p2, and so is all that
\* follows; otherwise v and w are carried scaled by n = |b1|^2
dihedral(p0, p1, p2, p3) ==
    LET b0 == Sub(p0, p1)
        b1 == Sub(p2, p1)
        b2 == Sub(p3, p2)
        n == Dot(b1, b1)
        v == Sub(Scale(n, b0), Scale(Dot(b0, b1), b1))
        w == Sub(Scale(n, b2), Scale(Dot(b2, b1), b1))
    IN  IF n = 0 THEN NaN ELSE Float("arctan2", Dot(Cross(b1, v), w), Dot(v, w), n)

float_abs(x) == IF x.nan THEN x ELSE [x EXCEPT !.p = IF x.p < 0 THEN -x.p ELSE x.p]

---------------------------------------------------------------------------
(* constants *)

lanthanides == 57..71
transition_metals == (21..30) \cup (39..48) \cup (72..80)

spin_map == [Z \in 23..30 |->
    CASE Z = 23 -> 3 [] Z = 24 -> 4 [] Z = 25 -> 5 [] Z = 26 -> 4
      [] Z = 27 -> 3 [] Z = 28 -> 2 [] Z = 29 -> 1 [] Z = 30 -> 0]

---------------------------------------------------------------------------
(* feature extractor *)

\* raise exc(msg) at a source line; indices is the list an f-string message shows
Raise(e, l, m, idx) == [exc |-> e, line |-> l, msg |-> m, indices |-> idx, frame |-> <<>>]
\* return pd.DataFrame([row]): one row, its columns in the dict's order
Return(l, row) == [exc |-> "none", line |-> l, msg |-> "", indices |-> <<>>, frame |-> <<row>>]

\* lines 49-53: atom i of the file is (i, int(Z), array([float(x), float(y), float(z)]))
load(file) ==
    [i \in 1..Len(file) |-> <<i, file[i][1], <<2 * file[i][2], 2 * file[i][3], 2 * file[i][4]>>>>]

Ln_atoms_of(atoms) == SelectSeq(atoms, LAMBDA a : a[2] \in lanthanides)
Tm_atoms_of(atoms) == SelectSeq(atoms, LAMBDA a : a[2] \in transition_metals)
O_atoms_of(atoms) == SelectSeq(atoms, LAMBDA a : a[2] = 8)
atom_indices(cands) == [k \in 1..Len(cands) |-> cands[k][1]]

\* a slip of needs_index: the count compared with 2
needs_index_above_two(cands, index) == Len(cands) > 2 /\ index = None

\* lines 64, 70: len(cands) > 1 and index is None
needs_index(cands, index) == Len(cands) > 1 /\ index = None

\* lines 77, 78: next(a for a in cands if a[0] == index) if index else cands[0];
\* the list is empty when next() finds nothing and raises StopIteration
select_center(cands, index) ==
    IF Truthy(index) THEN SelectSeq(cands, LAMBDA a : a[1] = index[1])
    ELSE <<cands[1]>>

\* line 81
zn_safeguard(Tm) == Tm[2] = 30

\* (sum, o) < (sum', o'): the sums first, then the atoms, whose first items are
\* their indices, which differ
oxy_lt(x, y) == float_lt(x[1], y[1]) \/ (float_eq(x[1], y[1]) /\ x[2][1] < y[2][1])

RECURSIVE insert_oxy(_, _)
insert_oxy(x, s) ==
    IF s = <<>> THEN <<x>>
    ELSE IF oxy_lt(x, Head(s)) THEN <<x>> \o s
    ELSE <<Head(s)>> \o insert_oxy(x, Tail(s))

RECURSIVE sorted_oxy(_)
sorted_oxy(s) ==
    IF s = <<>> THEN <<>>
    ELSE insert_oxy(s[Len(s)], sorted_oxy(SubSeq(s, 1, Len(s) - 1)))

\* a slip of bridging_oxygens: the oxygens ranked by their distance to Ln alone
bridging_oxygens_by_ln(O_atoms, Ln, Tm) ==
    SubSeq(sorted_oxy([k \in 1..Len(O_atoms) |-> <<dist(Ln[3], O_atoms[k][3]), O_atoms[k]>>]), 1, 2)

\* lines 93-95: the two (sum, o) of least sum
bridging_oxygens(O_atoms, Ln, Tm) ==
    SubSeq(sorted_oxy([k \in 1..Len(O_atoms) |->
               <<float_add(dist(Ln[3], O_atoms[k][3]), dist(Tm[3], O_atoms[k][3])), O_atoms[k]>>]),
           1, 2)

\* min() of a list of (distance, array): item < best compares the distances and,
\* when they are equal, the arrays, whose == is an array with no truth value
RECURSIVE py_min(_, _)
py_min(best, rest) ==
    IF rest = <<>> THEN [exc |-> "none", c |-> best[2]]
    ELSE IF float_eq(Head(rest)[1], best[1]) THEN [exc |-> "ValueError", c |-> best[2]]
    ELSE py_min(IF float_lt(Head(rest)[1], best[1]) THEN Head(rest) ELSE best, Tail(rest))

heavy_atoms_of(atoms) ==
    SelectSeq(atoms, LAMBDA a : a[2] \notin lanthanides /\ a[2] \notin transition_metals /\ a[2] # 8)

\* lines 100-107; exc "empty" stands for the raise of line 106
nearest_heavy(atoms, Ocoord) ==
    LET heavy == heavy_atoms_of(atoms)
        candidates == [k \in 1..Len(heavy) |-> <<dist(Ocoord, heavy[k][3]), heavy[k][3]>>]
    IN  IF candidates = <<>> THEN [exc |-> "empty", c |-> Ocoord]
        ELSE py_min(candidates[1], Tail(candidates))

\* lines 113-134
features(Ln, Tm, O1, O2, C1, C2) ==
    LET LnTm == dist(Ln[3], Tm[3])
        LnO == sorted_floats(<<dist(Ln[3], O1), dist(Ln[3], O2)>>)
        TmO == sorted_floats(<<dist(Tm[3], O1), dist(Tm[3], O2)>>)
        LnOTm == sorted_floats(<<angle(Ln[3], O1, Tm[3]), angle(Ln[3], O2, Tm[3])>>)
        X == midpoint(O1, O2)
        LnXTm == angle(Ln[3], X, Tm[3])
        torsion == float_abs(dihedral(C1, O1, O2, C2))
    IN  IF Tm[2] \notin DOMAIN spin_map THEN Raise("KeyError", 123, "", <<Tm[2]>>)
        ELSE Return(122, <<
            <<"Spin", spin_map[Tm[2]]>>,
            <<"TmZ", Tm[2]>>,
            <<"Ln-Tm", LnTm>>,
            <<"(Ln-O-Tm)1", LnOTm[1]>>,
            <<"(Ln-O-Tm)2", LnOTm[2]>>,
            <<"(Ln-X-Tm)", LnXTm>>,
            <<"tio", torsion>>,
            <<"Ln-O1", LnO[1]>>,
            <<"Ln-O2", LnO[2]>>,
            <<"Tm-O1", TmO[1]>>,
            <<"Tm-O2", TmO[2]>> >>)

\* a slip of with_centers: the oxygens counted before the Zn safeguard
with_centers_oxygens_first(atoms, Ln, Tm) ==
    LET O_atoms == O_atoms_of(atoms)
        oxy == bridging_oxygens(O_atoms, Ln, Tm)
        O1 == oxy[1][2][3]
        O2 == oxy[2][2][3]
        C1 == nearest_heavy(atoms, O1)
        C2 == nearest_heavy(atoms, O2)
    IN  IF Len(O_atoms) < 2
        THEN Raise("ValueError", 90, "At least two oxygen atoms are required.", <<>>)
        ELSE IF zn_safeguard(Tm)
        THEN Raise("ValueError", 82,
                   "Zn(II) is diamagnetic (S = 0). No magnetic exchange coupling is expected.", <<>>)
        ELSE IF C1.exc = "empty"
        THEN Raise("ValueError", 106, "No suitable atoms found for torsion calculation.", <<>>)
        ELSE IF C1.exc # "none" \/ C2.exc # "none"
        THEN Raise("ValueError", 107, "The truth value of an array with more than one element is ambiguous.", <<>>)
        ELSE features(Ln, Tm, O1, O2, C1.c, C2.c)

\* lines 80-134, with Ln and Tm selected
with_centers(atoms, Ln, Tm) ==
    LET O_atoms == O_atoms_of(atoms)
        oxy == bridging_oxygens(O_atoms, Ln, Tm)
        O1 == oxy[1][2][3]
        O2 == oxy[2][2][3]
        C1 == nearest_heavy(atoms, O1)
        C2 == nearest_heavy(atoms, O2)
    IN  IF zn_safeguard(Tm)
        THEN Raise("ValueError", 82,
                   "Zn(II) is diamagnetic (S = 0). No magnetic exchange coupling is expected.", <<>>)
        ELSE IF Len(O_atoms) < 2
        THEN Raise("ValueError", 90, "At least two oxygen atoms are required.", <<>>)
        ELSE IF C1.exc = "empty"
        THEN Raise("ValueError", 106, "No suitable atoms found for torsion calculation.", <<>>)
        ELSE IF C1.exc # "none"
        THEN Raise("ValueError", 107, "The truth value of an array with more than one element is ambiguous.", <<>>)
        ELSE IF C2.exc # "none"
        THEN Raise("ValueError", 107, "The truth value of an array with more than one element is ambiguous.", <<>>)
        ELSE features(Ln, Tm, O1, O2, C1.c, C2.c)

\* lines 47-134
extract_features(file, ln_i, tm_i) ==
    LET atoms == load(file)
        Ln_atoms == Ln_atoms_of(atoms)
        Tm_atoms == Tm_atoms_of(atoms)
        Ln == select_center(Ln_atoms, ln_i)
        Tm == select_center(Tm_atoms, tm_i)
    IN  IF Len(Ln_atoms) = 0
        THEN Raise("ValueError", 59, "No lanthanide atom found in the structure.", <<>>)
        ELSE IF Len(Tm_atoms) = 0
        THEN Raise("ValueError", 62, "No transition metal atom found in the structure.", <<>>)
        ELSE IF needs_index(Ln_atoms, ln_i)
        THEN Raise("ValueError", 65, "Multiple lanthanides detected. Please specify the Ln atom index.",
                   atom_indices(Ln_atoms))
        ELSE IF needs_index(Tm_atoms, tm_i)
        THEN Raise("ValueError", 71, "Multiple transition metals detected. Please specify the TM atom index.",
                   atom_indices(Tm_atoms))
        ELSE IF Ln = <<>> THEN Raise("StopIteration", 77, "", <<>>)
        ELSE IF Tm = <<>> THEN Raise("StopIteration", 78, "", <<>>)
        ELSE with_centers(atoms, Ln[1], Tm[1])

---------------------------------------------------------------------------
(* The inputs of the model *)

\* Gd, Fe, Ti, Zn, O, C
Kinds == {64, 26, 22, 30, 8, 6}
Grid == {<<x, y, 0>> : x \in 0..MaxCoord, y \in 0..1}
\* line i of a selection file lies at the i-th grid point, row by row
spot(i) == <<(i - 1) % (MaxCoord + 1), ((i - 1) \div (MaxCoord + 1)) % 2, 0>>
line_of(Z, c) == <<Z, c[1], c[2], c[3]>>

\* a selection file: any sequence of elements, line i at spot(i)
selection_file(zs) == [i \in 1..Len(zs) |-> line_of(zs[i], spot(i))]

\* a geometry file: Gd at the origin and a metal a unit from it, then the
\* oxygens, then the carbons
OxygenLines == {line_of(8, c) : c \in Grid}
CarbonLines == {line_of(6, c) : c \in Grid}
geometry_file(tm, os, cs) == <<line_of(64, <<0, 0, 0>>), line_of(tm, <<1, 0, 0>>)>> \o os \o cs

IndexArgs == {None} \cup {Some(k) : k \in 0..MaxAtoms}

NoResult == [exc |-> "pending", line |-> 0, msg |-> "", indices |-> <<>>, frame |-> <<>>]

---------------------------------------------------------------------------
(* One call of extract_features *)

\* Either a selection file of up to MaxAtoms lines with any two index
\* arguments, or a geometry file of Gd, Fe or Ti and up to MaxLigands oxygens
\* and carbons with no index argument.
Init ==
    /\ \/ /\ \E n \in 1..MaxAtoms : \E zs \in [1..n -> Kinds] :
                xyz_file = selection_file(zs)
          /\ ln_index \in IndexArgs
          /\ tm_index \in IndexArgs
       \/ /\ \E a \in 0..MaxLigands : \E b \in 0..(MaxLigands - a) :
                \E tm \in {26, 22}, os \in [1..a -> OxygenLines], cs \in [1..b -> CarbonLines] :
                    xyz_file = geometry_file(tm, os, cs)
          /\ ln_index = None
          /\ tm_index = None
    /\ pc = "call"
    /\ result = NoResult
    /\ temp_xyz = <<>>
    /\ session = <<>>

Call ==
    /\ pc = "call"
    /\ result' = extract_features(xyz_file, ln_index, tm_index)
    /\ pc' = "done"
    /\ UNCHANGED <<xyz_file, ln_index, tm_index, temp_xyz, session>>

Next == Call

Spec == Init /\ [][Next]_vars

---------------------------------------------------------------------------
(* The page: app.py, run once per upload by each browser session; every run *)
(* writes and reads the one file temp.xyz of the server's working directory *)

Sessions == 1..NumSessions

\* Gd and Fe bridged by two oxygens with a carbon; the same with Ti;
\* Gd with Fe and Zn
Uploads == {
    geometry_file(26, <<line_of(8, <<0, 1, 0>>), line_of(8, <<1, 1, 0>>)>>, <<line_of(6, <<0, 0, 0>>)>>),
    geometry_file(22, <<line_of(8, <<0, 1, 0>>), line_of(8, <<1, 1, 0>>)>>, <<line_of(6, <<0, 0, 0>>)>>),
    selection_file(<<64, 26, 30>>) }

\* lines 37-49: number_input(min_value=1, value=None)
WidgetValues == {None, Some(1), Some(3)}

Idle == [pc |-> "idle", uploaded_file |-> <<>>, ln_index |-> None, tm_index |-> None,
         read |-> <<>>, X_pred |-> NoResult, shown |-> "nothing"]

ShellInit ==
    /\ xyz_file = <<>>
    /\ ln_index = None
    /\ tm_index = None
    /\ pc = "page"
    /\ result = NoResult
    /\ temp_xyz = <<>>
    /\ session = [s \in Sessions |-> Idle]

\* lines 29-52: a file is uploaded and the script runs again from the top
Rerun(s) ==
    /\ session[s].pc = "idle"
    /\ \E f \in Uploads, ln \in WidgetValues, tm \in WidgetValues :
          session' = [session EXCEPT ![s] =
              [Idle EXCEPT !.pc = "open", !.uploaded_file = f, !.ln_index = ln, !.tm_index = tm]]
    /\ UNCHANGED <<xyz_file, ln_index, tm_index, pc, result, temp_xyz>>

\* line 53: open("temp.xyz", "wb") empties the file
Open(s) ==
    /\ session[s].pc = "open"
    /\ temp_xyz' = <<>>
    /\ session' = [session EXCEPT ![s].pc = "write"]
    /\ UNCHANGED <<xyz_file, ln_index, tm_index, pc, result>>

\* line 54 and the end of the with block
Write(s) ==
    /\ session[s].pc = "write"
    /\ temp_xyz' = session[s].uploaded_file
    /\ session' = [session EXCEPT ![s].pc = "extract"]
    /\ UNCHANGED <<xyz_file, ln_index, tm_index, pc, result>>

\* lines 56-61 and 70-75: extract_features reads temp.xyz as it is now
Extract(s) ==
    /\ session[s].pc = "extract"
    /\ LET X == extract_features(temp_xyz, session[s].ln_index, session[s].tm_index)
       IN  session' = [session EXCEPT
               ![s].read = temp_xyz,
               ![s].X_pred = X,
               ![s].shown = IF X.exc = "none" THEN "nothing"
                            ELSE IF X.exc = "ValueError" THEN "warning"
                            ELSE "error",
               ![s].pc = IF X.exc = "none" THEN "predict" ELSE "idle"]
    /\ UNCHANGED <<xyz_file, ln_index, tm_index, pc, result, temp_xyz>>

\* lines 63-68
Predict(s) ==
    /\ session[s].pc = "predict"
    /\ session' = [session EXCEPT ![s].shown = "success", ![s].pc = "idle"]
    /\ UNCHANGED <<xyz_file, ln_index, tm_index, pc, result, temp_xyz>>

ShellNext == \E s \in Sessions : Rerun(s) \/ Open(s) \/ Write(s) \/ Extract(s) \/ Predict(s)

ShellSpec == ShellInit /\ [][ShellNext]_vars

---------------------------------------------------------------------------
(* What the claims speak of, read off the input file and the outcome *)

Done == pc = "done"
LinesOf(S) == {i \in 1..Len(xyz_file) : xyz_file[i][1] \in S}
LnLines == LinesOf(57..71)
TmLines == LinesOf((21..30) \cup (39..48) \cup (72..80))
OLines == LinesOf({8})
OtherLines == (1..Len(xyz_file)) \ (LnLines \cup TmLines \cup OLines)
InOrder(S) == SelectSeq([i \in 1..Len(xyz_file) |-> i], LAMBDA i : i \in S)
Least(S) == CHOOSE i \in S : \A j \in S : i <= j

\* the error kinds of the specification, as the code raises them
Failed == result.exc # "none" /\ result.frame = <<>>
ValidationError == result.exc = "ValueError" /\ result.frame = <<>>
AmbiguousCenter == ValidationError /\ result.line \in {65, 71}
DiamagneticCenter == ValidationError /\ result.line = 82

\* the call got past center selection (lines 58-78)
CenterSelected == Done /\ result.line \notin {59, 62, 65, 71, 77, 78}
\* the call got past the oxygen count, so lines 93-97 chose O1 and O2
BridgeLocated == CenterSelected /\ result.line \notin {82, 90}

\* the line of the resolved center: the index given, or the first candidate
ResolvedLn == IF ln_index \in {None, Some(0)} THEN Least(LnLines) ELSE ln_index[1]
ResolvedTm == IF tm_index \in {None, Some(0)} THEN Least(TmLines) ELSE tm_index[1]
Atoms == load(xyz_file)
LnPos == Atoms[ResolvedLn][3]
TmPos == Atoms[ResolvedTm][3]
Bridge == bridging_oxygens(O_atoms_of(Atoms), Atoms[ResolvedLn], Atoms[ResolvedTm])
O1Atom == Bridge[1][2]
O2Atom == Bridge[2][2]
\* distance(Ln, O) + distance(TM, O) of the atom at line i
BridgeSum(i) == float_add(dist(LnPos, Atoms[i][3]), dist(TmPos, Atoms[i][3]))

---------------------------------------------------------------------------
(* Claims *)

\* C1: when a positive index is supplied and no candidate of that role has it,
\* extract_features fails with a validation error (the class the page shows as
\* a one-line warning) and returns no record.
C1_InvalidIndex ==
    (/\ Done
     /\ \/ ln_index # None /\ ln_index[1] >= 1 /\ ln_index[1] \notin LnLines
        \/ tm_index # None /\ tm_index[1] >= 1 /\ tm_index[1] \notin TmLines)
    => ValidationError

\* C2: index 0 is "unspecified": the call with ln_index = 0 (tm_index = 0) has
\* the outcome of the call with that index omitted.
C2_ZeroIsUnspecified ==
    Done =>
        /\ ln_index = Some(0) => result = extract_features(xyz_file, None, tm_index)
        /\ tm_index = Some(0) => result = extract_features(xyz_file, ln_index, None)

\* C3: with at least one Ln and one TM, more than one Ln and no ln_index, or
\* more than one TM and no tm_index, fails with AmbiguousCenter listing the
\* 1-based indices of all candidates of the ambiguous role in input order (the
\* Ln role when both are ambiguous), and no record is returned.
C3_AmbiguousCenter ==
    (Done /\ LnLines # {} /\ TmLines # {}) =>
        /\ (Cardinality(LnLines) > 1 /\ ln_index = None) =>
              /\ AmbiguousCenter
              /\ result.line = 65
              /\ result.indices = InOrder(LnLines)
        /\ (/\ ~(Cardinality(LnLines) > 1 /\ ln_index = None)
            /\ Cardinality(TmLines) > 1
            /\ tm_index = None) =>
              /\ AmbiguousCenter
              /\ result.line = 71
              /\ result.indices = InOrder(TmLines)

\* C3 happens: one Ln, two Fe, no tm_index, and both Fe indices are listed
C3_Witness ==
    /\ Done
    /\ Cardinality(LnLines) = 1
    /\ Cardinality(LinesOf({26})) = 2
    /\ TmLines = LinesOf({26})
    /\ tm_index = None
    /\ AmbiguousCenter
    /\ result.indices = InOrder(TmLines)

\* C4: once the centers are selected, the call fails with DiamagneticCenter
\* exactly when the resolved TM is Zn (30), whatever the oxygens and other
\* atoms of the structure are.
C4_DiamagneticCenter ==
    CenterSelected => (DiamagneticCenter <=> xyz_file[ResolvedTm][1] = 30)

\* C4 happens: Zn is chosen by tm_index among two metals, the structure has
\* fewer than 2 oxygens and no other atom, and the failure is DiamagneticCenter
C4_Witness ==
    /\ CenterSelected
    /\ Cardinality(TmLines) = 2
    /\ tm_index # None
    /\ xyz_file[ResolvedTm][1] = 30
    /\ Cardinality(OLines) < 2
    /\ OtherLines = {}
    /\ DiamagneticCenter

\* C5: with the centers selected, the resolved TM any transition metal but Zn,
\* at least 2 oxygens and at least 1 other atom, the call returns one record
\* whose TmZ is the TM's atomic number and whose Spin is its spin_map value;
\* the spin lookup does not fail.
C5_SpinLookup ==
    (/\ CenterSelected
     /\ xyz_file[ResolvedTm][1] # 30
     /\ Cardinality(OLines) >= 2
     /\ OtherLines # {})
    => /\ result.exc = "none"
       /\ Len(result.frame) = 1
       /\ result.frame[1][2] = <<"TmZ", xyz_file[ResolvedTm][1]>>
       /\ result.frame[1][1][1] = "Spin"
       /\ xyz_file[ResolvedTm][1] \in DOMAIN spin_map
       /\ result.frame[1][1][2] = spin_map[xyz_file[ResolvedTm][1]]

\* a zero-length vector in angle or dihedral: a bridging oxygen or the midpoint
\* of the two at the position of Ln or TM, or the two oxygens at one position
ZeroLengthVector ==
    \/ O1Atom[3] \in {LnPos, TmPos}
    \/ O2Atom[3] \in {LnPos, TmPos}
    \/ midpoint(O1Atom[3], O2Atom[3]) \in {LnPos, TmPos}
    \/ O1Atom[3] = O2Atom[3]

\* C6: when a zero-length vector occurs in an angle or dihedral computation,
\* the call fails and returns no record.
C6_DegenerateGeometry ==
    (BridgeLocated /\ ZeroLengthVector) => Failed

\* C7: O1 and O2 are two distinct oxygens, O1's sum is at most O2's, no other
\* oxygen has a strictly smaller sum than O2, and among equal sums the oxygen
\* earlier in the input is taken first.
C7_BridgingOxygens ==
    BridgeLocated =>
        LET o1 == O1Atom
            o2 == O2Atom
            s1 == BridgeSum(o1[1])
            s2 == BridgeSum(o2[1])
        IN  /\ {o1[1], o2[1]} \subseteq OLines
            /\ o1[1] # o2[1]
            /\ o1 = Atoms[o1[1]]
            /\ o2 = Atoms[o2[1]]
            /\ float_le(s1, s2)
            /\ float_eq(s1, s2) => o1[1] < o2[1]
            /\ \A i \in OLines \ {o1[1], o2[1]} :
                  /\ ~float_lt(BridgeSum(i), s2)
                  /\ float_eq(BridgeSum(i), s2) => o2[1] < i

\* C7 happens: O1 has a strictly smaller sum than O2 and comes later in the
\* file, and a third oxygen ties with O2 and comes after it
C7_Witness ==
    /\ BridgeLocated
    /\ float_lt(BridgeSum(O1Atom[1]), BridgeSum(O2Atom[1]))
    /\ O2Atom[1] < O1Atom[1]
    /\ \E i \in OLines \ {O1Atom[1], O2Atom[1]} :
          float_eq(BridgeSum(i), BridgeSum(O2Atom[1])) /\ O2Atom[1] < i

\* C8: for each bridging oxygen, attached-atom selection fails with
\* NoTorsionAnchor exactly when the structure has no other atom, and otherwise
\* returns the position of an other atom at minimal distance from the oxygen,
\* ties included.
C8_NearestHeavy ==
    BridgeLocated =>
        \A O \in {O1Atom[3], O2Atom[3]} :
            /\ nearest_heavy(Atoms, O).exc = "empty" <=> OtherLines = {}
            /\ OtherLines # {} =>
                  /\ nearest_heavy(Atoms, O).exc = "none"
                  /\ \E i \in OtherLines :
                        /\ Atoms[i][3] = nearest_heavy(Atoms, O).c
                        /\ \A j \in OtherLines : float_le(dist(O, Atoms[i][3]), dist(O, Atoms[j][3]))

Columns ==
    <<"Spin", "TmZ", "Ln-Tm", "(Ln-O-Tm)1", "(Ln-O-Tm)2", "(Ln-X-Tm)", "tio",
      "Ln-O1", "Ln-O2", "Tm-O1", "Tm-O2">>
\* <<x, y>> holds the two values a and b
IsPair(x, y, a, b) == <<x, y>> = <<a, b>> \/ <<x, y>> = <<b, a>>

\* C9: a returned record has the 11 columns in order, Ln-O1 <= Ln-O2,
\* Tm-O1 <= Tm-O2 and (Ln-O-Tm)1 <= (Ln-O-Tm)2, each pair being the two values
\* computed for O1 and O2.
C9_SortedPairs ==
    (Done /\ result.exc = "none") =>
        LET row == result.frame[1]
            val(k) == row[k][2]
        IN  /\ [k \in 1..Len(row) |-> row[k][1]] = Columns
            /\ IsPair(val(8), val(9), dist(LnPos, O1Atom[3]), dist(LnPos, O2Atom[3]))
            /\ IsPair(val(10), val(11), dist(TmPos, O1Atom[3]), dist(TmPos, O2Atom[3]))
            /\ IsPair(val(4), val(5), angle(LnPos, O1Atom[3], TmPos), angle(LnPos, O2Atom[3], TmPos))
            /\ float_le(val(8), val(9))
            /\ float_le(val(10), val(11))
            /\ float_le(val(4), val(5))

\* C10: under any interleaving of sessions, the file a session's
\* extract_features call reads is the file that session persisted, and what the
\* session passes to the predictor or displays comes from its own upload.
C10_OwnUpload ==
    \A s \in Sessions :
        (session[s].pc = "predict" \/ session[s].shown # "nothing") =>
            /\ session[s].read = session[s].uploaded_file
            /\ session[s].X_pred =
                   extract_features(session[s].uploaded_file, session[s].ln_index, session[s].tm_index)

====
